---- MODULE Spec2Model ----
(***************************************************************************)
(* A model of Kando's InputTracker (src/renderer/menu/input-tracker.ts):   *)
(* the object's fields, its public handlers, and the pointer-motion        *)
(* notifications it emits.                                                 *)
(*                                                                         *)
(* Representation of real-valued quantities (pointer coordinates are       *)
(* integers here):                                                         *)
(*   - a length sqrt(n) is represented by n, its square, so that           *)
(*     "length > DRAG_THRESHOLD" is "n > DRAG_THRESHOLD * DRAG_THRESHOLD"; *)
(*   - an angle is represented by the primitive integer direction vector   *)
(*     of the vector it is the angle of (0 degrees = up = <<0, -1>> in     *)
(*     screen coordinates, whose y axis points down).                      *)
(***************************************************************************)
EXTENDS Integers, Sequences, FiniteSets, TLC

(***************************************************************************)
(* Bounds of the model.                                                    *)
(***************************************************************************)
\* the motion events since the last arming of the ignore counter are counted up
\* to MaxCounted
MaxCounted == 3

\* pointer positions are (3 * i, 4 * i) with i in 0 .. MaxStep: their mutual
\* distances are the multiples of 5 up to 5 * MaxStep
MaxStep == 2

(***************************************************************************)
(* Program constants.                                                      *)
(***************************************************************************)
DRAG_THRESHOLD == 5

\* enum InputState
eReleased == "eReleased"
eClicked == "eClicked"
eDragging == "eDragging"
InputState == {eReleased, eClicked, eDragging}

(***************************************************************************)
(* Inputs.                                                                 *)
(***************************************************************************)
Positions == {[x |-> 3 * i, y |-> 4 * i] : i \in 0 .. MaxStep}

\* the positions the Menu class passes as the active item's position
ActivePositions == {[x |-> 0, y |-> 0], [x |-> 3, y |-> 4]}

NoModifier == [ctrlKey |-> FALSE, metaKey |-> FALSE, shiftKey |-> FALSE, altKey |-> FALSE]

\* the modifier flags the events of the model carry: none, Ctrl alone, Alt alone
ModifierInputs ==
  {NoModifier, [NoModifier EXCEPT !.ctrlKey = TRUE], [NoModifier EXCEPT !.altKey = TRUE]}

\* MouseEvent: clientX, clientY, buttons and the modifier flags.
MouseEvents ==
  {[mouse |-> TRUE, clientX |-> p.x, clientY |-> p.y, buttons |-> b, keys |-> k] :
     p \in Positions, b \in {0, 1}, k \in ModifierInputs}

\* TouchEvent: touches[0].clientX, touches[0].clientY and the modifier flags;
\* a touch event has no buttons field (read only behind instanceof MouseEvent).
TouchEvents ==
  {[mouse |-> FALSE, clientX |-> p.x, clientY |-> p.y, buttons |-> 0, keys |-> k] :
     p \in Positions, k \in ModifierInputs}

PointerEvents == MouseEvents \cup TouchEvents

\* KeyboardEvent of a keyup: the modifier flags still held
KeyboardEvents == ModifierInputs

(***************************************************************************)
(* math helpers (src/renderer/math, imported at input-tracker.ts:13).      *)
(***************************************************************************)
Abs(n) == IF n < 0 THEN -n ELSE n

RECURSIVE Gcd(_, _)
Gcd(a, b) == IF b = 0 THEN a ELSE Gcd(b, a % b)

subtract(a, b) == [x |-> a.x - b.x, y |-> a.y - b.y]

\* the square of the vector's length
getLength(vec) == vec.x * vec.x + vec.y * vec.y

\* the square of the distance of two points
getDistance(a, b) == getLength(subtract(a, b))

\* the direction of the vector; <<0, 0>> for the zero vector
getAngle(vec) ==
  LET g == Gcd(Abs(vec.x), Abs(vec.y))
  IN  IF g = 0 THEN <<0, 0>> ELSE <<vec.x \div g, vec.y \div g>>

\* private _angle = 0: zero degrees is up
AngleZero == <<0, -1>>

(***************************************************************************)
(* State.                                                                  *)
(*   self     the InputTracker object: its private fields                  *)
(*   emitted  the pointer-motion notifications emitted, in order, by the   *)
(*            handler that ran last (emit is synchronous)                  *)
(*   last     history: the call that ran last, its arguments (the active   *)
(*            item position when the call reads it), and the input state   *)
(*            it started from                                              *)
(*   sinceArm history: the number of onMotionEvent calls made from outside *)
(*            since ignoreNextMotionEvents was last called, counted up to  *)
(*            MaxCounted; MaxCounted also when it was never called         *)
(***************************************************************************)
VARIABLES self, emitted, last, sinceArm

(***************************************************************************)
(* The variables of the other components, each the state of one            *)
(* specification of its own (SpecSelector, SpecLayout, SpecSession,        *)
(* SpecCopy) and Unused in the others:                                     *)
(*   chooser  one show-menu request: the configured menus, the request,    *)
(*            the invocation context and the menu selected for it          *)
(*   layout   one run of the layout resolver: the siblings and their       *)
(*            resolved angles                                              *)
(*   session  the selection state machine                                  *)
(*   heap     the objects of a menu item tree and of its copy              *)
(***************************************************************************)
VARIABLES chooser, layout, session, heap

tracker == <<self, emitted, last, sinceArm>>

vars == <<self, emitted, last, sinceArm, chooser, layout, session, heap>>

Unused == "unused"

\* an optional argument is the empty set or a singleton
Undefined == {}

Some(v) == {v}

\* JavaScript's a || b on an optional object
OrElse(opt, default) == IF opt = Undefined THEN default ELSE CHOOSE v \in opt : TRUE

NoEvent ==
  [mouse |-> FALSE, clientX |-> 0, clientY |-> 0, buttons |-> 0, keys |-> NoModifier]

\* event.ctrlKey || event.metaKey || event.shiftKey || event.altKey
anyModifier(keys) == keys.ctrlKey \/ keys.metaKey \/ keys.shiftKey \/ keys.altKey

\* { x: event.clientX, y: event.clientY }, or the first touch point
eventPosition(event) == [x |-> event.clientX, y |-> event.clientY]

\* faulty variant: the relative position is not taken relative to the item
update_absolute(obj, position, activeItemPosition) ==
  [obj EXCEPT !.absolutePosition = position,
              !.relativePosition = position,
              !.distance = getLength(position),
              !.angle = getAngle(position)]

(***************************************************************************)
(* InputTracker.update                                                     *)
(***************************************************************************)
update(obj, position, activeItemPosition) ==
  LET active == OrElse(activeItemPosition, position)
      relative == subtract(position, active)
  IN  [obj EXCEPT !.absolutePosition = position,
                  !.relativePosition = relative,
                  !.distance = getLength(relative),
                  !.angle = getAngle(relative)]

(***************************************************************************)
(* InputTracker.onMotionEvent, step by step.                               *)
(***************************************************************************)
\* if (this.ignoreMotionEvents > 0)
ignoresMotion(obj) == obj.ignoreMotionEvents > 0

\* faulty variant: the threshold itself already counts as a drag
exceedsDragThreshold_atThreshold(obj) ==
  getDistance(obj.absolutePosition, obj.clickPosition) >= DRAG_THRESHOLD * DRAG_THRESHOLD

\* math.getDistance(this._absolutePosition, this.clickPosition) > DRAG_THRESHOLD
exceedsDragThreshold(obj) ==
  getDistance(obj.absolutePosition, obj.clickPosition) > DRAG_THRESHOLD * DRAG_THRESHOLD

\* faulty variant: moving far from the click-origin drags from any state
dragStep_anyState(obj) ==
  IF exceedsDragThreshold(obj)
  THEN [obj EXCEPT !.state = eDragging]
  ELSE obj

\* eClicked becomes eDragging once the pointer moved too far
dragStep(obj) ==
  IF obj.state = eClicked /\ exceedsDragThreshold(obj)
  THEN [obj EXCEPT !.state = eDragging]
  ELSE obj

\* faulty variant: turbo mode follows the event's flags instead of latching
turboStep_unlatched(obj, event) ==
  IF ~obj.deferredTurboMode
  THEN [obj EXCEPT !.turboMode = anyModifier(event.keys)]
  ELSE obj

\* faulty variant: the deferral does not stop the event's flags
turboStep_undeferred(obj, event) ==
  [obj EXCEPT !.turboMode = obj.turboMode \/ anyModifier(event.keys)]

\* turbo mode is latched from the event's modifier flags unless deferred
turboStep(obj, event) ==
  IF ~obj.deferredTurboMode
  THEN [obj EXCEPT !.turboMode = obj.turboMode \/ anyModifier(event.keys)]
  ELSE obj

\* faulty variant: a mouse motion with no button also clears a click
releaseStep_clicked(obj, event) ==
  IF obj.turboMode
  THEN [obj EXCEPT !.state = eDragging]
  ELSE IF event.mouse /\ obj.state # eReleased /\ event.buttons = 0
       THEN [obj EXCEPT !.state = eReleased]
       ELSE obj

\* faulty variant: the button test is made for touch events too (their buttons
\* field reads as no button held)
releaseStep_anyDevice(obj, event) ==
  IF obj.turboMode
  THEN [obj EXCEPT !.state = eDragging]
  ELSE IF obj.state = eDragging /\ event.buttons = 0
       THEN [obj EXCEPT !.state = eReleased]
       ELSE obj

\* faulty variant: a motion without buttons never ends a drag
releaseStep_turboOnly(obj, event) ==
  IF obj.turboMode
  THEN [obj EXCEPT !.state = eDragging]
  ELSE obj

\* faulty variant: the button test comes before the turbo test
releaseStep_buttonsFirst(obj, event) ==
  IF event.mouse /\ obj.state = eDragging /\ event.buttons = 0
  THEN [obj EXCEPT !.state = eReleased]
  ELSE IF obj.turboMode
       THEN [obj EXCEPT !.state = eDragging]
       ELSE obj

\* turbo mode forces eDragging; a mouse motion with no button ends a drag
releaseStep(obj, event) ==
  IF obj.turboMode
  THEN [obj EXCEPT !.state = eDragging]
  ELSE IF event.mouse /\ obj.state = eDragging /\ event.buttons = 0
       THEN [obj EXCEPT !.state = eReleased]
       ELSE obj

\* faulty variant: a click already counts as dragging
pointerMotion_clicked(obj) ==
  [position |-> obj.absolutePosition, dragging |-> (obj.state # eReleased)]

\* this.emit('pointer-motion', this._absolutePosition, this._state === eDragging)
pointerMotion(obj) ==
  [position |-> obj.absolutePosition, dragging |-> (obj.state = eDragging)]

\* faulty variant: a discarded event still latches turbo mode from its flags
onMotionEvent_latchesDiscarded(c, event, activeItemPosition) ==
  IF ignoresMotion(c.obj)
  THEN [c EXCEPT !.obj = turboStep([c.obj EXCEPT !.ignoreMotionEvents = @ - 1], event)]
  ELSE LET o1 == update(c.obj, eventPosition(event), Some(activeItemPosition))
           o2 == dragStep(o1)
           o3 == turboStep(o2, event)
           o4 == releaseStep(o3, event)
       IN  [obj |-> o4, out |-> Append(c.out, pointerMotion(o4))]

\* faulty variant: a discarded event takes two units off the counter
onMotionEvent_skipsTwo(c, event, activeItemPosition) ==
  IF ignoresMotion(c.obj)
  THEN [c EXCEPT !.obj.ignoreMotionEvents = @ - 2]
  ELSE LET o1 == update(c.obj, eventPosition(event), Some(activeItemPosition))
           o2 == dragStep(o1)
           o3 == turboStep(o2, event)
           o4 == releaseStep(o3, event)
       IN  [obj |-> o4, out |-> Append(c.out, pointerMotion(o4))]

\* the handler on a context c = [obj, out]: the object and what was emitted
onMotionEvent(c, event, activeItemPosition) ==
  IF ignoresMotion(c.obj)
  THEN [c EXCEPT !.obj.ignoreMotionEvents = @ - 1]
  ELSE LET o1 == update(c.obj, eventPosition(event), Some(activeItemPosition))
           o2 == dragStep(o1)
           o3 == turboStep(o2, event)
           o4 == releaseStep(o3, event)
       IN  [obj |-> o4, out |-> Append(c.out, pointerMotion(o4))]

(***************************************************************************)
(* The other handlers.                                                     *)
(***************************************************************************)
\* faulty variant: an ignored pointer-down event is discarded as a whole
onPointerDownEvent_discarded(c, event, activeItemPosition) ==
  IF ignoresMotion(c.obj)
  THEN [c EXCEPT !.obj.ignoreMotionEvents = @ - 1]
  ELSE LET o1 == [c.obj EXCEPT !.clickPosition = eventPosition(event)]
           o2 == [o1 EXCEPT !.state = eClicked]
       IN  onMotionEvent([c EXCEPT !.obj = o2], event, activeItemPosition)

onPointerDownEvent(c, event, activeItemPosition) ==
  LET o1 == [c.obj EXCEPT !.clickPosition = eventPosition(event)]
      o2 == [o1 EXCEPT !.state = eClicked]
  IN  onMotionEvent([c EXCEPT !.obj = o2], event, activeItemPosition)

\* faulty variant: releasing the pointer also ends turbo mode
onPointerUpEvent_endsTurbo(c) ==
  [c EXCEPT !.obj.state = eReleased, !.obj.turboMode = FALSE]

onPointerUpEvent(c) == [c EXCEPT !.obj.state = eReleased]

\* faulty variant: the deferral is not honoured
onKeyDownEvent_undeferred(c) == [c EXCEPT !.obj.turboMode = TRUE]

\* faulty variant: the guard is inverted
onKeyDownEvent_inverted(c) ==
  IF c.obj.deferredTurboMode
  THEN [c EXCEPT !.obj.turboMode = TRUE]
  ELSE c

onKeyDownEvent(c) ==
  IF ~c.obj.deferredTurboMode
  THEN [c EXCEPT !.obj.turboMode = TRUE]
  ELSE c

\* faulty variant: the key-up that ends turbo mode also releases the drag
onKeyUpEvent_releases(c, event) ==
  IF ~anyModifier(event)
  THEN [c EXCEPT !.obj.deferredTurboMode = FALSE, !.obj.turboMode = FALSE,
                 !.obj.state = eReleased]
  ELSE c

\* faulty variant: any key-up ends turbo mode, whatever is still held
onKeyUpEvent_anyKey(c, event) ==
  [c EXCEPT !.obj.deferredTurboMode = FALSE, !.obj.turboMode = FALSE]

onKeyUpEvent(c, event) ==
  LET stillAnyModifierPressed == anyModifier(event)
  IN  IF ~stillAnyModifierPressed
      THEN [c EXCEPT !.obj.deferredTurboMode = FALSE, !.obj.turboMode = FALSE]
      ELSE c

\* faulty variant: the setter leaves an active turbo mode on
setDeferredTurboMode_keepsTurbo(c, val) ==
  [c EXCEPT !.obj.deferredTurboMode = val]

\* set deferredTurboMode(val)
setDeferredTurboMode(c, val) ==
  [c EXCEPT !.obj.deferredTurboMode = val, !.obj.turboMode = FALSE]

ignoreNextMotionEvents(c) == [c EXCEPT !.obj.ignoreMotionEvents = 2]

(***************************************************************************)
(* The state machine: one action per public call.                          *)
(***************************************************************************)
\* the field initialisers of the class
NewInputTracker ==
  [state |-> eReleased,
   absolutePosition |-> [x |-> 0, y |-> 0],
   relativePosition |-> [x |-> 0, y |-> 0],
   angle |-> AngleZero,
   distance |-> 0,
   deferredTurboMode |-> FALSE,
   clickPosition |-> [x |-> 0, y |-> 0],
   ignoreMotionEvents |-> 0,
   turboMode |-> FALSE]

\* the history record of a call
Called(op, event, keys, active, val) ==
  [op |-> op, event |-> event, keys |-> keys, active |-> active, val |-> val,
   fromState |-> self.state]

\* the active item position as far as the motion handler reads it
ReadActive(a) == IF self.ignoreMotionEvents > 0 THEN Undefined ELSE Some(a)

\* a handler starts with nothing emitted
Entry == [obj |-> self, out |-> <<>>]

Return(c) == self' = c.obj /\ emitted' = c.out

\* the tracker after construction
TrackerInit ==
  /\ self = NewInputTracker
  /\ emitted = <<>>
  /\ sinceArm = MaxCounted
  /\ last = [op |-> "new", event |-> NoEvent, keys |-> NoModifier,
             active |-> Undefined, val |-> FALSE, fromState |-> eReleased]

Init ==
  /\ TrackerInit
  /\ chooser = Unused /\ layout = Unused /\ session = Unused /\ heap = Unused

MotionEvent ==
  /\ \E event \in PointerEvents, a \in ActivePositions :
       /\ Return(onMotionEvent(Entry, event, a))
       /\ last' = Called("onMotionEvent", event, NoModifier, ReadActive(a), FALSE)
  /\ sinceArm' = IF sinceArm < MaxCounted THEN sinceArm + 1 ELSE MaxCounted
  /\ UNCHANGED <<chooser, layout, session, heap>>

PointerDownEvent ==
  /\ \E event \in PointerEvents, a \in ActivePositions :
       /\ Return(onPointerDownEvent(Entry, event, a))
       /\ last' = Called("onPointerDownEvent", event, NoModifier, ReadActive(a), FALSE)
  /\ UNCHANGED sinceArm
  /\ UNCHANGED <<chooser, layout, session, heap>>

PointerUpEvent ==
  /\ Return(onPointerUpEvent(Entry))
  /\ last' = Called("onPointerUpEvent", NoEvent, NoModifier, Undefined, FALSE)
  /\ UNCHANGED sinceArm
  /\ UNCHANGED <<chooser, layout, session, heap>>

KeyDownEvent ==
  /\ Return(onKeyDownEvent(Entry))
  /\ last' = Called("onKeyDownEvent", NoEvent, NoModifier, Undefined, FALSE)
  /\ UNCHANGED sinceArm
  /\ UNCHANGED <<chooser, layout, session, heap>>

KeyUpEvent ==
  /\ \E event \in KeyboardEvents :
       /\ Return(onKeyUpEvent(Entry, event))
       /\ last' = Called("onKeyUpEvent", NoEvent, event, Undefined, FALSE)
  /\ UNCHANGED sinceArm
  /\ UNCHANGED <<chooser, layout, session, heap>>

SetDeferredTurboMode ==
  /\ \E val \in BOOLEAN :
       /\ Return(setDeferredTurboMode(Entry, val))
       /\ last' = Called("deferredTurboMode", NoEvent, NoModifier, Undefined, val)
  /\ UNCHANGED sinceArm
  /\ UNCHANGED <<chooser, layout, session, heap>>

Update ==
  /\ \E position \in Positions,
        a \in {Undefined} \cup {Some(p) : p \in ActivePositions} :
       /\ Return([Entry EXCEPT !.obj = update(self, position, a)])
       /\ last' = Called("update",
                         [NoEvent EXCEPT !.clientX = position.x, !.clientY = position.y],
                         NoModifier, a, FALSE)
  /\ UNCHANGED sinceArm
  /\ UNCHANGED <<chooser, layout, session, heap>>

IgnoreNextMotionEvents ==
  /\ Return(ignoreNextMotionEvents(Entry))
  /\ last' = Called("ignoreNextMotionEvents", NoEvent, NoModifier, Undefined, FALSE)
  /\ sinceArm' = 0
  /\ UNCHANGED <<chooser, layout, session, heap>>

Next ==
  \/ MotionEvent
  \/ PointerDownEvent
  \/ PointerUpEvent
  \/ KeyDownEvent
  \/ KeyUpEvent
  \/ SetDeferredTurboMode
  \/ Update
  \/ IgnoreNextMotionEvents

Spec == Init /\ [][Next]_vars

TypeOK ==
  /\ self.state \in InputState
  /\ self.ignoreMotionEvents \in 0 .. 2
  /\ Len(emitted) <= 1

(***************************************************************************)
(* Vocabulary of the properties.                                           *)
(*                                                                         *)
(* The properties of single calls are action properties [][A]_vars: in A,  *)
(* last'.op and last'.event name the call of the step, the unprimed        *)
(* variables the state it starts from.  A step that changes no variable    *)
(* (a call repeated in a state it leaves alone) is not evaluated, but the  *)
(* same call on the same object is: a key-up event that reports a modifier *)
(* held changes the history and not the object.                            *)
(***************************************************************************)
\* the position an event reports
PositionOf(event) == [x |-> event.clientX, y |-> event.clientY]

\* whether two points are more than DRAG_THRESHOLD apart
Beyond(p, q) ==
  (p.x - q.x) * (p.x - q.x) + (p.y - q.y) * (p.y - q.y) > DRAG_THRESHOLD * DRAG_THRESHOLD

\* whether an event carries a modifier flag
Held(keys) == \E f \in DOMAIN keys : keys[f]

\* the InteractionSnapshot of the tracker
Snapshot(obj) ==
  <<obj.absolutePosition, obj.relativePosition, obj.distance, obj.angle>>

Origin == [x |-> 0, y |-> 0]

(***************************************************************************)
(* C1  The click-to-drag threshold.                                        *)
(***************************************************************************)
\* C1 as stated: a motion event that arrives in state Clicked leaves the state
\* Clicked when it is at most 5 px from the click-origin, and makes it Dragging
\* when it is more than 5 px away.
C1_Original ==
  [][(last'.op = "onMotionEvent" /\ self.state = eClicked)
       => IF Beyond(PositionOf(last'.event), self.clickPosition)
          THEN self'.state = eDragging
          ELSE self'.state = eClicked]_vars

\* C1 amended: what a motion event does to state Clicked.  A discarded event
\* leaves it Clicked.  An accepted event that ends with turbo mode active makes
\* it Dragging at any distance.  An accepted event that ends with turbo mode
\* inactive leaves it Clicked at a distance of at most 5 px from the
\* click-origin; beyond 5 px it makes it Dragging when the event is a touch event
\* or reports a button held, and Released when it is a mouse event with no
\* button held.
C1_Amended ==
  [][(last'.op = "onMotionEvent" /\ self.state = eClicked)
       => self'.state =
            IF self.ignoreMotionEvents > 0 THEN eClicked
            ELSE IF self'.turboMode THEN eDragging
            ELSE IF ~Beyond(PositionOf(last'.event), self.clickPosition) THEN eClicked
            ELSE IF last'.event.mouse /\ last'.event.buttons = 0 THEN eReleased
            ELSE eDragging]_vars

\* pointer-down at (0,0), then a motion to (6,8) with the button held and no
\* modifier: Clicked has become Dragging
C1_Witness ==
  /\ last.op = "onMotionEvent"
  /\ last.fromState = eClicked
  /\ self.clickPosition = Origin
  /\ PositionOf(last.event) = [x |-> 6, y |-> 8]
  /\ last.event.mouse /\ last.event.buttons = 1
  /\ ~self.turboMode
  /\ self.state = eDragging
  /\ Len(emitted) = 1

(***************************************************************************)
(* C2  The turbo latch.                                                    *)
(***************************************************************************)
\* C2 as stated: once turboMode is true it stays true, and it becomes false only
\* at a key-up event that reports no modifier held.
C2_Original ==
  [][(self.turboMode /\ ~self'.turboMode)
       => (last'.op = "onKeyUpEvent" /\ ~Held(last'.keys))]_vars

\* C2 amended: once turboMode is true it stays true across motion, pointer-down,
\* pointer-up, key-down, update and ignoreNextMotionEvents calls, whatever their
\* arguments, and it becomes false exactly at a key-up event that reports no
\* modifier held or at an assignment to deferredTurboMode.
C2_Amended ==
  [][self.turboMode
       => (self'.turboMode <=>
             ~ \/ (last'.op = "onKeyUpEvent" /\ ~Held(last'.keys))
               \/ last'.op = "deferredTurboMode")]_vars

\* turbo mode is still on after a mouse motion without modifier and button
C2_Witness ==
  /\ last.op = "onMotionEvent"
  /\ last.event.mouse /\ last.event.buttons = 0
  /\ ~Held(last.event.keys)
  /\ Len(emitted) = 1
  /\ self.turboMode

(***************************************************************************)
(* C3  The ignore mechanism.                                               *)
(***************************************************************************)
\* the motion event of the step is discarded: nothing but the counter changes
\* and nothing is emitted
Discards ==
  /\ emitted' = <<>>
  /\ self' = [self EXCEPT !.ignoreMotionEvents = self'.ignoreMotionEvents]

\* the motion event of the step is processed: the snapshot is taken at the
\* event's position and one notification is emitted
Processes ==
  /\ Len(emitted') = 1
  /\ self'.absolutePosition = PositionOf(last'.event)

\* C3 as stated: after ignoreNextMotionEvents the first and the second motion
\* event are discarded and the third is processed.
C3_Claim ==
  [][last'.op = "onMotionEvent"
       => /\ sinceArm \in {0, 1} => Discards
          /\ sinceArm = 2 => Processes]_vars

(***************************************************************************)
(* C4  Deferred turbo mode.                                                *)
(***************************************************************************)
\* C4 as stated: while turbo mode is deferred, motion and pointer-down events
\* leave turboMode false whatever modifier flags they carry, and a key-down
\* event makes turboMode true.
C4_Original ==
  [][self.deferredTurboMode
       => /\ last'.op \in {"onMotionEvent", "onPointerDownEvent"} => ~self'.turboMode
          /\ last'.op = "onKeyDownEvent" => self'.turboMode]_vars

\* C4 amended: setting deferredTurboMode to true leaves turbo mode deferred and
\* inactive; while it is deferred, neither the modifier flags of motion and
\* pointer-down events nor key-down events activate it, and it stays deferred
\* until a key-up event reports no modifier held or deferredTurboMode is set to
\* false; a key-down event activates turbo mode only when it is not deferred.
C4_Amended ==
  [][/\ (last'.op = "deferredTurboMode" /\ last'.val)
          => (self'.deferredTurboMode /\ ~self'.turboMode)
     /\ self.deferredTurboMode
          => /\ ~self'.turboMode
             /\ self'.deferredTurboMode <=>
                  ~ \/ (last'.op = "onKeyUpEvent" /\ ~Held(last'.keys))
                    \/ (last'.op = "deferredTurboMode" /\ ~last'.val)
     /\ last'.op = "onKeyDownEvent"
          => (self'.turboMode <=> ~self.deferredTurboMode)]_vars

\* a key-down event arrived while turbo mode was deferred: turbo mode is off
C4_Witness ==
  /\ last.op = "onKeyDownEvent"
  /\ self.deferredTurboMode
  /\ ~self.turboMode

(***************************************************************************)
(* C5  One notification per accepted motion event.                         *)
(***************************************************************************)
\* C5: a motion event that arrives with the ignore counter at 0 emits exactly
\* one notification before the handler returns, carrying the event's position
\* and whether the state is Dragging at the end of the handler; a motion event
\* that arrives with the counter above 0 emits none.
C5_Notification ==
  [][last'.op = "onMotionEvent"
       => emitted' =
            IF self.ignoreMotionEvents = 0
            THEN <<[position |-> PositionOf(last'.event),
                    dragging |-> (self'.state = eDragging)]>>
            ELSE <<>>]_vars

\* a button-less mouse motion ended a drag at (3,4): one notification, not dragging
C5_Witness ==
  /\ last.op = "onMotionEvent"
  /\ last.fromState = eDragging
  /\ self.state = eReleased
  /\ emitted = <<[position |-> [x |-> 3, y |-> 4], dragging |-> FALSE]>>

(***************************************************************************)
(* C6  Turbo mode forces Dragging.                                         *)
(***************************************************************************)
\* C6: an accepted motion event that ends with turbo mode active ends in state
\* Dragging and notifies dragging = TRUE, whatever the state before and the
\* buttons held.
C6_TurboDrags ==
  [][(last'.op = "onMotionEvent" /\ self.ignoreMotionEvents = 0 /\ self'.turboMode)
       => /\ self'.state = eDragging
          /\ emitted' = <<[position |-> PositionOf(last'.event), dragging |-> TRUE]>>]_vars

\* from Released, a mouse motion with no button held, turbo mode active
C6_Witness ==
  /\ last.op = "onMotionEvent"
  /\ last.fromState = eReleased
  /\ last.event.mouse /\ last.event.buttons = 0
  /\ self.turboMode
  /\ self.state = eDragging
  /\ Len(emitted) = 1 /\ emitted[1].dragging

(***************************************************************************)
(* C7  The keyboard-only gesture.                                          *)
(***************************************************************************)
\* C7: a key-down event that arrives with turbo mode not deferred sets turboMode
\* and leaves the input state alone; the accepted motion event that follows it
\* ends in state Dragging and notifies dragging = TRUE, whatever its buttons.
C7_KeyboardGesture ==
  [][/\ (last'.op = "onKeyDownEvent" /\ ~self.deferredTurboMode)
          => (self'.turboMode /\ self'.state = self.state)
     /\ (/\ last.op = "onKeyDownEvent"
         /\ ~self.deferredTurboMode
         /\ last'.op = "onMotionEvent"
         /\ self.ignoreMotionEvents = 0)
          => /\ self'.state = eDragging
             /\ emitted' = <<[position |-> PositionOf(last'.event),
                              dragging |-> TRUE]>>]_vars

\* from Released, a mouse motion that carries neither a button nor a modifier
\* flag drags: turbo mode was set by the keyboard, and no pointer-down moved
\* the click-origin
C7_Witness ==
  /\ last.op = "onMotionEvent"
  /\ last.fromState = eReleased
  /\ last.event.mouse /\ last.event.buttons = 0
  /\ ~Held(last.event.keys)
  /\ self.clickPosition = Origin
  /\ PositionOf(last.event) = [x |-> 3, y |-> 4]
  /\ self.turboMode
  /\ self.state = eDragging
  /\ emitted = <<[position |-> [x |-> 3, y |-> 4], dragging |-> TRUE]>>

(***************************************************************************)
(* C8  Key-up.                                                             *)
(***************************************************************************)
\* C8: a key-up event that reports no modifier held clears deferredTurboMode and
\* turboMode; one that reports a modifier held changes neither; both leave the
\* input state, the click-origin, the ignore counter and the snapshot alone and
\* emit nothing.
C8_KeyUp ==
  [][last'.op = "onKeyUpEvent"
       => /\ self'.deferredTurboMode = (Held(last'.keys) /\ self.deferredTurboMode)
          /\ self'.turboMode = (Held(last'.keys) /\ self.turboMode)
          /\ self'.state = self.state
          /\ self'.clickPosition = self.clickPosition
          /\ self'.ignoreMotionEvents = self.ignoreMotionEvents
          /\ Snapshot(self') = Snapshot(self)
          /\ emitted' = <<>>]_vars

\* the last modifier was released during a drag with the counter armed: the
\* flags are clear, the state is still Dragging
C8_Witness ==
  /\ last.op = "onKeyUpEvent"
  /\ ~Held(last.keys)
  /\ last.fromState = eDragging
  /\ self.state = eDragging
  /\ self.ignoreMotionEvents = 2
  /\ ~self.turboMode /\ ~self.deferredTurboMode

(***************************************************************************)
(* C9  Pointer-up.                                                         *)
(***************************************************************************)
\* C9: a pointer-up event sets the state to Released and changes nothing else:
\* turboMode, deferredTurboMode, the ignore counter, the click-origin and the
\* snapshot are unchanged and nothing is emitted.
C9_PointerUp ==
  [][last'.op = "onPointerUpEvent"
       => /\ self' = [self EXCEPT !.state = eReleased]
          /\ emitted' = <<>>]_vars

\* a pointer-up ended a drag with turbo mode on
C9_Witness ==
  /\ last.op = "onPointerUpEvent"
  /\ last.fromState = eDragging
  /\ self.state = eReleased
  /\ self.turboMode

(***************************************************************************)
(* C10  Pointer-down.                                                      *)
(***************************************************************************)
\* C10 as stated: a pointer-down event at p records p as the click-origin, moves
\* the snapshot's absolute position to p, emits one notification, and ends in
\* state Dragging when turbo mode is active and in state Clicked otherwise.
C10_Claim ==
  [][last'.op = "onPointerDownEvent"
       => /\ self'.clickPosition = PositionOf(last'.event)
          /\ self'.absolutePosition = PositionOf(last'.event)
          /\ Len(emitted') = 1
          /\ self'.state = IF self'.turboMode THEN eDragging ELSE eClicked]_vars

(***************************************************************************)
(* C11  A mouse motion with no button held ends a drag.                    *)
(***************************************************************************)
\* C11: an accepted mouse motion event that reports no button held
\* (event.buttons = 0; a touch event reports no buttons at all) and ends with
\* turbo mode inactive does not end in state Dragging: from Dragging, and from
\* Clicked beyond the drag threshold, it ends in Released, and it notifies
\* dragging = FALSE.
C11_NoButtonNoDrag ==
  [][(/\ last'.op = "onMotionEvent"
      /\ self.ignoreMotionEvents = 0
      /\ last'.event.mouse /\ last'.event.buttons = 0
      /\ ~self'.turboMode)
       => /\ self'.state # eDragging
          /\ self.state = eDragging => self'.state = eReleased
          /\ (/\ self.state = eClicked
              /\ Beyond(PositionOf(last'.event), self.clickPosition))
               => self'.state = eReleased
          /\ emitted' = <<[position |-> PositionOf(last'.event),
                           dragging |-> FALSE]>>]_vars

\* a click at (0,0) followed by a button-less mouse motion to (6,8): the drag
\* that the motion starts is released by the same motion
C11_Witness ==
  /\ last.op = "onMotionEvent"
  /\ last.fromState = eClicked
  /\ last.event.mouse /\ last.event.buttons = 0
  /\ self.clickPosition = Origin
  /\ PositionOf(last.event) = [x |-> 6, y |-> 8]
  /\ ~self.turboMode
  /\ self.state = eReleased
  /\ emitted = <<[position |-> [x |-> 6, y |-> 8], dragging |-> FALSE]>>

(***************************************************************************)
(* C19  Deferred turbo mode needs a key release.                           *)
(***************************************************************************)
\* C19 as stated: while turbo mode is deferred no call activates it, a key-down
\* event included, and the deferral ends only at a key-up event that reports no
\* modifier held.
C19_Original ==
  [][self.deferredTurboMode
       => /\ ~self'.turboMode
          /\ ~self'.deferredTurboMode
               => (last'.op = "onKeyUpEvent" /\ ~Held(last'.keys))]_vars

\* C19 amended: a key-down event that arrives while turbo mode is deferred leaves
\* it inactive and deferred; turboMode becomes true only in a call that starts
\* with turbo mode not deferred (a key-down, or a motion or pointer-down event
\* carrying a modifier flag); and the deferral ends only at a key-up event that
\* reports no modifier held or at an assignment of false to deferredTurboMode.
C19_Amended ==
  [][/\ (last'.op = "onKeyDownEvent" /\ self.deferredTurboMode)
          => (~self'.turboMode /\ self'.deferredTurboMode)
     /\ (~self.turboMode /\ self'.turboMode)
          => /\ ~self.deferredTurboMode
             /\ \/ last'.op = "onKeyDownEvent"
                \/ /\ last'.op \in {"onMotionEvent", "onPointerDownEvent"}
                   /\ Held(last'.event.keys)
     /\ (self.deferredTurboMode /\ ~self'.deferredTurboMode)
          => \/ (last'.op = "onKeyUpEvent" /\ ~Held(last'.keys))
             \/ (last'.op = "deferredTurboMode" /\ ~last'.val)]_vars

\* a key-down event during a pointer drag, with turbo mode deferred: turbo mode
\* stays off
C19_Witness ==
  /\ last.op = "onKeyDownEvent"
  /\ last.fromState = eDragging
  /\ self.state = eDragging
  /\ self.deferredTurboMode
  /\ ~self.turboMode

(***************************************************************************)
(* C20  The snapshot.                                                      *)
(***************************************************************************)
\* the snapshot taken at position p for an item at position a (the distance is
\* held as its square)
SnapshotAt(obj, p, a) ==
  /\ obj.absolutePosition = p
  /\ obj.relativePosition = [x |-> p.x - a.x, y |-> p.y - a.y]
  /\ obj.distance = (p.x - a.x) * (p.x - a.x) + (p.y - a.y) * (p.y - a.y)

\* C20: after an accepted motion event at p with the active item at a, and after
\* update(p, a), the absolute position is p, the relative position is p - a and
\* the distance is the length of the relative position; after update(p) without
\* an item position the relative position is (0,0) and the distance is 0.
C20_Snapshot ==
  [][/\ (last'.op = "onMotionEvent" /\ self.ignoreMotionEvents = 0)
          => \E a \in last'.active : SnapshotAt(self', PositionOf(last'.event), a)
     /\ (last'.op = "update" /\ last'.active # Undefined)
          => \E a \in last'.active : SnapshotAt(self', PositionOf(last'.event), a)
     /\ (last'.op = "update" /\ last'.active = Undefined)
          => /\ self'.absolutePosition = PositionOf(last'.event)
             /\ self'.relativePosition = Origin
             /\ self'.distance = 0]_vars

\* a motion to (6,8) with the active item at (3,4): relative (3,4), distance 5
C20_Witness ==
  /\ last.op = "onMotionEvent"
  /\ last.active = {[x |-> 3, y |-> 4]}
  /\ self.absolutePosition = [x |-> 6, y |-> 8]
  /\ self.relativePosition = [x |-> 3, y |-> 4]
  /\ self.distance = 25
  /\ Len(emitted) = 1

(***************************************************************************)
(* C21  Turbo mode is never both deferred and active.                      *)
(***************************************************************************)
\* C21: in every reachable state, deferredTurboMode = true implies
\* turboMode = false.
C21_DeferredNotActive == self.deferredTurboMode => ~self.turboMode

\* an accepted motion event with a modifier held arrives during a pointer drag
\* while turbo mode is deferred: turbo mode is still off
C21_Witness ==
  /\ self.deferredTurboMode
  /\ ~self.turboMode
  /\ self.state = eDragging
  /\ last.op = "onMotionEvent"
  /\ Held(last.event.keys)
  /\ Len(emitted) = 1

C23_DiscardedFrame ==
  [][(last'.op = "onMotionEvent" /\ self.ignoreMotionEvents > 0)
       => /\ self'.state = self.state
          /\ self'.turboMode = self.turboMode
          /\ self'.deferredTurboMode = self.deferredTurboMode
          /\ self'.clickPosition = self.clickPosition
          /\ Snapshot(self') = Snapshot(self)
          /\ self'.ignoreMotionEvents = self.ignoreMotionEvents - 1
          /\ emitted' = <<>>]_vars

\* a discarded mouse motion event in state Clicked that carries a modifier
\* flag, is more than 5 px from the click-origin and reports no button held
C23_Witness ==
  /\ last.op = "onMotionEvent"
  /\ emitted = <<>>
  /\ last.event.mouse /\ last.event.buttons = 0
  /\ Held(last.event.keys)
  /\ Beyond(PositionOf(last.event), self.clickPosition)
  /\ self.absolutePosition # PositionOf(last.event)
  /\ self.state = eClicked
  /\ ~self.turboMode /\ ~self.deferredTurboMode

C25_NoGestureByMotion ==
  [][/\ (/\ last'.op = "onMotionEvent"
         /\ self.ignoreMotionEvents = 0
         /\ self.state = eReleased
         /\ ~self.turboMode
         /\ ~Held(last'.event.keys))
          => self'.state = eReleased
     /\ (self.state # eClicked /\ self'.state = eClicked)
          => last'.op = "onPointerDownEvent"
     /\ (self.state # eDragging /\ self'.state = eDragging)
          => /\ last'.op \in {"onMotionEvent", "onPointerDownEvent"}
             /\ \/ self'.turboMode
                \/ /\ last'.op = "onMotionEvent"
                   /\ self.state = eClicked
                   /\ Beyond(PositionOf(last'.event), self.clickPosition)]_vars

\* an accepted motion event with a button reported held and no modifier flag,
\* more than 5 px from the last click-origin, in state Released: still Released
C25_Witness ==
  /\ last.op = "onMotionEvent"
  /\ last.fromState = eReleased
  /\ Len(emitted) = 1
  /\ last.event.buttons = 1
  /\ ~Held(last.event.keys)
  /\ Beyond(PositionOf(last.event), self.clickPosition)
  /\ ~self.turboMode
  /\ self.state = eReleased

(***************************************************************************)
(* C26  Ending a turbo gesture.                                            *)
(***************************************************************************)
\* the notification of the step reports the event's position and dragging =
\* false
ReportsReleased ==
  emitted' = <<[position |-> PositionOf(last'.event), dragging |-> FALSE]>>

\* C26 as stated: a key-up event does not change the input state; the state
\* goes from Dragging to Released only in a pointer-up event or in an accepted
\* mouse motion event that has no modifier flags and no buttons held, whose
\* notification reports dragging = false; and with turbo mode inactive such a
\* motion event does release a drag.
C26_Original ==
  [][/\ last'.op = "onKeyUpEvent" => self'.state = self.state
     /\ (self.state = eDragging /\ self'.state = eReleased)
          => \/ last'.op = "onPointerUpEvent"
             \/ /\ last'.op = "onMotionEvent"
                /\ self.ignoreMotionEvents = 0
                /\ last'.event.mouse /\ last'.event.buttons = 0
                /\ ~Held(last'.event.keys)
                /\ ReportsReleased
     /\ (/\ self.state = eDragging /\ ~self.turboMode
         /\ last'.op = "onMotionEvent"
         /\ self.ignoreMotionEvents = 0
         /\ last'.event.mouse /\ last'.event.buttons = 0
         /\ ~Held(last'.event.keys))
          => (self'.state = eReleased /\ ReportsReleased)]_vars

\* C26 amended: a key-up event does not change the input state; the state goes
\* from Dragging to Released only in a pointer-up event or in an accepted mouse
\* motion event that has no buttons held and leaves turbo mode inactive, that
\* is, one that has no modifier flags or arrives while turbo mode is deferred;
\* its notification reports dragging = false; and with turbo mode inactive
\* such a motion event does release a drag.
C26_Amended ==
  [][/\ last'.op = "onKeyUpEvent" => self'.state = self.state
     /\ (self.state = eDragging /\ self'.state = eReleased)
          => \/ last'.op = "onPointerUpEvent"
             \/ /\ last'.op = "onMotionEvent"
                /\ self.ignoreMotionEvents = 0
                /\ last'.event.mouse /\ last'.event.buttons = 0
                /\ ~self.turboMode
                /\ ~Held(last'.event.keys) \/ self.deferredTurboMode
                /\ ReportsReleased
     /\ (/\ self.state = eDragging /\ ~self.turboMode
         /\ last'.op = "onMotionEvent"
         /\ self.ignoreMotionEvents = 0
         /\ last'.event.mouse /\ last'.event.buttons = 0
         /\ ~Held(last'.event.keys) \/ self.deferredTurboMode)
          => (self'.state = eReleased /\ ReportsReleased)]_vars

\* a key-up event with no modifier held has arrived during a drag: turbo mode
\* is off and the state is still Dragging
C26_Witness ==
  /\ last.op = "onKeyUpEvent"
  /\ ~Held(last.keys)
  /\ last.fromState = eDragging
  /\ self.state = eDragging
  /\ ~self.turboMode
  /\ ~self.deferredTurboMode

(***************************************************************************)
(* C27  Touch motion never releases a drag.                                *)
(***************************************************************************)
\* the step leaves state Dragging
LeavesDragging == self.state = eDragging /\ self'.state # eDragging

\* the call of the step carries a touch event
ByTouch ==
  last'.op \in {"onMotionEvent", "onPointerDownEvent"} /\ ~last'.event.mouse

\* C27 as stated: an accepted touch motion event never changes the state from
\* Dragging to Released, and no call with a touch event leaves Dragging:
\* Dragging is left by touch input only through a pointer-up event.
C27_Original ==
  [][/\ (last'.op = "onMotionEvent" /\ ~last'.event.mouse
         /\ self.ignoreMotionEvents = 0 /\ self.state = eDragging)
          => self'.state # eReleased
     /\ (LeavesDragging /\ last'.op # "onPointerUpEvent") => ~ByTouch]_vars

\* C27 amended: a touch motion event, accepted or discarded, never changes the
\* state when it is Dragging; with a touch event, Dragging is left only in a
\* pointer-down event, which makes the state Clicked unless it is accepted
\* with turbo mode active; apart from that Dragging is left by touch input
\* only through a pointer-up event.
C27_Amended ==
  [][/\ (last'.op = "onMotionEvent" /\ ~last'.event.mouse
         /\ self.state = eDragging)
          => self'.state = eDragging
     /\ (LeavesDragging /\ last'.op # "onPointerUpEvent" /\ ByTouch)
          => /\ last'.op = "onPointerDownEvent"
             /\ self'.state = eClicked
             /\ ~self'.turboMode \/ self.ignoreMotionEvents > 0
     /\ (last'.op = "onPointerDownEvent" /\ ~last'.event.mouse
         /\ self.state = eDragging /\ ~self.turboMode
         /\ (~Held(last'.event.keys) \/ self.deferredTurboMode))
          => self'.state = eClicked]_vars

\* an accepted touch motion event during a drag without turbo mode: the state
\* is still Dragging
C27_Witness ==
  /\ last.op = "onMotionEvent"
  /\ ~last.event.mouse
  /\ last.fromState = eDragging
  /\ Len(emitted) = 1
  /\ ~self.turboMode
  /\ self.state = eDragging

(***************************************************************************)
(* C28  A click is not cleared by motion.                                  *)
(***************************************************************************)
\* C28: with turbo mode inactive, an accepted motion event that arrives in
\* state Clicked at most 5 px from the click-origin leaves the state Clicked,
\* also when it reports no buttons held; and the state goes from Clicked to
\* another state only in a pointer-up event or in an accepted motion event
\* more than 5 px from the click-origin.
C28_ClickedStays ==
  [][/\ (/\ last'.op = "onMotionEvent"
         /\ self.ignoreMotionEvents = 0
         /\ self.state = eClicked
         /\ ~self'.turboMode
         /\ ~Beyond(PositionOf(last'.event), self.clickPosition))
          => self'.state = eClicked
     /\ (self.state = eClicked /\ self'.state # eClicked /\ ~self'.turboMode)
          => \/ last'.op = "onPointerUpEvent"
             \/ /\ last'.op = "onMotionEvent"
                /\ self.ignoreMotionEvents = 0
                /\ Beyond(PositionOf(last'.event), self.clickPosition)]_vars

\* an accepted mouse motion event with no buttons held, 5 px from the
\* click-origin, in state Clicked: still Clicked
C28_Witness ==
  /\ last.op = "onMotionEvent"
  /\ last.fromState = eClicked
  /\ last.event.mouse /\ last.event.buttons = 0
  /\ Len(emitted) = 1
  /\ self.absolutePosition = PositionOf(last.event)
  /\ self.absolutePosition # self.clickPosition
  /\ ~Beyond(self.absolutePosition, self.clickPosition)
  /\ ~self.turboMode
  /\ self.state = eClicked

(***************************************************************************)
(*                                                                         *)
(*  THE MENU DATA AND THE COMPONENTS AROUND THE TRACKER                    *)
(*                                                                         *)
(*  The interfaces IMenuItem, IMenu and IMenuConditions and the function   *)
(*  deepCopyMenuItem are in the source.  The menu selector, the layout     *)
(*  resolver and the selection state machine are described by the          *)
(*  specification only (sections 4.2, 4.3, 4.4 and 7); their operators     *)
(*  below follow those sections.                                           *)
(*                                                                         *)
(***************************************************************************)

\* the largest number of configured menus
MaxMenus == 2

\* A string is a sequence of characters, so that a substring and the case of a
\* letter mean something.
toLowerCase(str) ==
  [i \in DOMAIN str |->
     CASE str[i] = "F" -> "f"
       [] str[i] = "O" -> "o"
       [] str[i] = "X" -> "x"
       [] str[i] = "D" -> "d"
       [] OTHER -> str[i]]

\* String.prototype.includes
includes(str, search) ==
  \E i \in 0 .. Len(str) - Len(search) :
    SubSeq(str, i + 1, i + Len(search)) = search

\* IMenuItem: a leaf with its data, or a submenu with its children
MenuItem(type, name, data, angle, children) ==
  [type |-> type, name |-> name, data |-> data, angle |-> angle,
   children |-> children]

\* IMenuConditions: every field is optional
MenuConditions ==
  [appName : {Undefined, Some(<<"f", "O">>)},
   windowName : {Undefined, Some(<<"D", "o">>)},
   screenArea : {Undefined,
                 Some([xMin |-> Some(100), xMax |-> Undefined,
                       yMin |-> Undefined, yMax |-> Undefined])}]

\* IMenu: the configured menus differ in how they are triggered and in their
\* conditions
Menus ==
  {[root |-> MenuItem("submenu", t.name, Undefined, Undefined,
                      <<MenuItem("command", "run", Some("ls"), Undefined, <<>>)>>),
    shortcut |-> t.shortcut, shortcutID |-> t.shortcutID,
    conditions |-> c] :
     t \in {[name |-> "Apps", shortcut |-> "Ctrl+1", shortcutID |-> ""],
            [name |-> "Web", shortcut |-> "", shortcutID |-> "web-menu"]},
     c \in MenuConditions}

\* the configured menu lists
RECURSIVE MenuLists(_)
MenuLists(n) ==
  IF n = 0 THEN {<<>>}
  ELSE MenuLists(n - 1)
         \cup {Append(l, m) : l \in {k \in MenuLists(n - 1) : Len(k) = n - 1},
                              m \in Menus}

\* a show-menu request: a trigger (a shortcut or a shortcut ID) or a name
Requests ==
  {[trigger |-> "Ctrl+1", name |-> ""],
   [trigger |-> "web-menu", name |-> ""],
   [trigger |-> "", name |-> "Web"]}

\* the invocation context: the focused application, the focused window and the
\* cursor position
Contexts ==
  [appName : {<<"F", "o", "x">>, <<"T", "e", "r", "m">>},
   windowName : {<<"d", "o", "c">>, <<"t", "a", "b">>},
   pointer : {[x |-> 50, y |-> 50], [x |-> 150, y |-> 50]}]

\* the trigger of the menu matches the request, by name when the request names
\* a menu and by shortcut or shortcut ID otherwise
triggerMatches(menu, request) ==
  IF request.name # ""
  THEN menu.root.name = request.name
  ELSE /\ request.trigger # ""
       /\ \/ menu.shortcut = request.trigger
          \/ menu.shortcutID = request.trigger

\* appName and windowName: the context string contains the configured string,
\* case-insensitively
matchesString(pattern, str) == includes(toLowerCase(str), toLowerCase(pattern))

\* screenArea: the cursor is within the rectangle, an absent side being open
matchesArea(area, pointer) ==
  /\ \A v \in area.xMin : pointer.x >= v
  /\ \A v \in area.xMax : pointer.x <= v
  /\ \A v \in area.yMin : pointer.y >= v
  /\ \A v \in area.yMax : pointer.y <= v

\* the score counts satisfied fields only
specificity_lenient(conditions, context) ==
  LET app == IF \E p \in conditions.appName : matchesString(p, context.appName)
             THEN 1 ELSE 0
      win == IF \E p \in conditions.windowName : matchesString(p, context.windowName)
             THEN 1 ELSE 0
      area == IF \E a \in conditions.screenArea : matchesArea(a, context.pointer)
              THEN 1 ELSE 0
  IN app + win + area

\* The specificity score of a menu's conditions: the number of its present
\* fields, all of which have to be satisfied; -1 disqualifies the menu.
specificity(conditions, context) ==
  LET field(present, ok) == IF ~present THEN 0 ELSE IF ok THEN 1 ELSE -1
      app == field(conditions.appName # Undefined,
                   \E p \in conditions.appName : matchesString(p, context.appName))
      win == field(conditions.windowName # Undefined,
                   \E p \in conditions.windowName : matchesString(p, context.windowName))
      area == field(conditions.screenArea # Undefined,
                    \E a \in conditions.screenArea : matchesArea(a, context.pointer))
  IN IF app < 0 \/ win < 0 \/ area < 0 THEN -1 ELSE app + win + area

\* the last of the best menus wins
RECURSIVE chooseFrom_lastWins(_, _, _, _, _, _)
chooseFrom_lastWins(menus, request, context, i, best, bestScore) ==
  IF i > Len(menus) THEN best
  ELSE LET score == IF triggerMatches(menus[i], request)
                    THEN specificity(menus[i].conditions, context) ELSE -1
       IN IF score >= 0 /\ score >= bestScore
          THEN chooseFrom_lastWins(menus, request, context, i + 1, i, score)
          ELSE chooseFrom_lastWins(menus, request, context, i + 1, best, bestScore)

\* The selector walks the configured list from menu i on and keeps the best
\* menu so far; a later menu replaces it only with a higher score.  The result
\* is the index of the selected menu, 0 for "not found".
RECURSIVE chooseFrom(_, _, _, _, _, _)
chooseFrom(menus, request, context, i, best, bestScore) ==
  IF i > Len(menus) THEN best
  ELSE LET score == IF triggerMatches(menus[i], request)
                    THEN specificity(menus[i].conditions, context) ELSE -1
       IN IF score > bestScore
          THEN chooseFrom(menus, request, context, i + 1, i, score)
          ELSE chooseFrom(menus, request, context, i + 1, best, bestScore)

chooseMenu(menus, request, context) ==
  chooseFrom(menus, request, context, 1, 0, -1)

(***************************************************************************)
(* The layout resolver (specification, section 4.2).  Angles are whole     *)
(* degrees; the inputs are chosen so that every division below is exact.   *)
(***************************************************************************)

\* the largest number of siblings
MaxItems == 4

\* the degrees of the full circle
FullCircle == 360

\* the fixed angles of the inputs
FixedAngles == {(FullCircle \div 6) * i : i \in 0 .. 5}

\* the siblings given to the resolver: each with a fixed angle or without
Siblings == [angle : {Undefined} \cup {Some(a) : a \in FixedAngles}]

RECURSIVE SiblingLists(_)
SiblingLists(n) ==
  IF n = 0 THEN {<<>>}
  ELSE SiblingLists(n - 1)
         \cup {Append(l, m) : l \in {k \in SiblingLists(n - 1) : Len(k) = n - 1},
                              m \in Siblings}

\* the indices of the fixed siblings
fixedItems(items) == {i \in DOMAIN items : items[i].angle # Undefined}

\* the fixed angle of sibling i
fixedAngle(items, i) == OrElse(items[i].angle, 0)

\* the number of steps from sibling i forward to sibling j, going round the list
stepsBetween(items, i, j) == (j - i) % Len(items)

\* the same, a full round when j is i
stepsAfter(items, i, j) == ((j - i - 1) % Len(items)) + 1

\* The resolver assumes that the fixed angles are within [0, 360), mutually
\* distinct and ascending in list order, wrapping round at most once (section
\* 7): going from each fixed sibling to the next one, the last to the first,
\* the angle drops exactly once.
isValidLayoutInput(items) ==
  LET fixed == fixedItems(items)
      nextFixedAfter(f) ==
        CHOOSE g \in fixed :
          \A h \in fixed :
            stepsAfter(items, f, g) <= stepsAfter(items, f, h)
      drops == {f \in fixed :
                  fixedAngle(items, nextFixedAfter(f)) <= fixedAngle(items, f)}
  IN /\ \A f \in fixed : fixedAngle(items, f) \in 0 .. FullCircle - 1
     /\ fixed # {} => Cardinality(drops) = 1

\* the spacing starts one step after the top
evenAngle_fromOne(i, n) == ((i * FullCircle) \div n) % FullCircle

\* without fixed siblings, sibling i of n (counted from 1) is at (i-1) * 360 / n
evenAngle(i, n) == ((i - 1) * FullCircle) \div n

\* the first free sibling of a run is put on the fixed sibling that starts it
freeAngle_onFixed(items, i) ==
  LET fixed == fixedItems(items)
      prev == CHOOSE f \in fixed :
                \A h \in fixed : stepsBetween(items, f, i) <= stepsBetween(items, h, i)
      next == CHOOSE f \in fixed :
                \A h \in fixed : stepsBetween(items, i, f) <= stepsBetween(items, i, h)
      k == stepsBetween(items, prev, i) + stepsBetween(items, i, next) - 1
      fixedStart == fixedAngle(items, prev)
      gapSize == IF prev = next THEN FullCircle
                 ELSE (fixedAngle(items, next) - fixedStart) % FullCircle
  IN (fixedStart + ((stepsBetween(items, prev, i) - 1) * gapSize) \div (k + 1))
       % FullCircle

\* A free sibling i lies in the run of k free siblings between the fixed
\* sibling before it and the fixed sibling after it (the same sibling when
\* there is one fixed sibling only, the gap then being the full circle); the
\* free sibling number j of the run, counted from 0, is at
\* fixedStart + (j + 1) * gapSize / (k + 1).
freeAngle(items, i) ==
  LET fixed == fixedItems(items)
      prev == CHOOSE f \in fixed :
                \A h \in fixed : stepsBetween(items, f, i) <= stepsBetween(items, h, i)
      next == CHOOSE f \in fixed :
                \A h \in fixed : stepsBetween(items, i, f) <= stepsBetween(items, i, h)
      k == stepsBetween(items, prev, i) + stepsBetween(items, i, next) - 1
      fixedStart == fixedAngle(items, prev)
      gapSize == IF prev = next THEN FullCircle
                 ELSE (fixedAngle(items, next) - fixedStart) % FullCircle
  IN (fixedStart + (stepsBetween(items, prev, i) * gapSize) \div (k + 1))
       % FullCircle

\* the resolved angle of every sibling, in input order
computeItemAngles(items) ==
  [i \in DOMAIN items |->
     IF items[i].angle # Undefined THEN fixedAngle(items, i)
     ELSE IF fixedItems(items) = {} THEN evenAngle(i, Len(items))
     ELSE freeAngle(items, i)]

(***************************************************************************)
(* The selection state machine (specification, section 4.4).  It owns the  *)
(* tracker of the session (self, emitted) and reacts to its                *)
(* notifications.                                                          *)
(*   status   Idle, Open or Closed                                         *)
(*   root     the root item of the open menu                               *)
(*   path     the submenus opened below the root, as child indices         *)
(*   origins  the screen position of the root and of every opened submenu; *)
(*            the last one is the local origin                             *)
(*   hover    the hovered child of the current submenu, 0 for none         *)
(*   selected the selection decisions emitted downstream                   *)
(*   input    history: the input delivered last                            *)
(***************************************************************************)

\* the radius of the central dead-zone, in pixels
DeadZone == 20

\* the distance of a child from the centre of its parent, in pixels
ItemDistance == 50

\* screen directions (y grows downwards) of the angles the session's menus and
\* pointer positions use: 0 is up, 90 right, 180 down, 270 left
directionOf(angle) ==
  CASE angle = 0 -> <<0, -1>>
    [] angle = 45 -> <<1, -1>>
    [] angle = 90 -> <<1, 0>>
    [] angle = 135 -> <<1, 1>>
    [] angle = 180 -> <<0, 1>>
    [] angle = 225 -> <<-1, 1>>
    [] angle = 270 -> <<-1, 0>>
    [] angle = 315 -> <<-1, -1>>

\* the tracker's angle (held as a direction) in degrees
degreesOf(direction) ==
  CHOOSE a \in {45 * i : i \in 0 .. 7} : directionOf(a) = direction

\* the menu of the sessions: four children without fixed angles, one of them a
\* submenu whose first child has a fixed angle
SessionMenu ==
  MenuItem("submenu", "Apps", Undefined, Undefined,
    <<MenuItem("command", "terminal", Some("xterm"), Undefined, <<>>),
      MenuItem("submenu", "More", Undefined, Undefined,
        <<MenuItem("uri", "home", Some("https://kando.menu"), Some(180), <<>>),
          MenuItem("hotkey", "paste", Some("Ctrl+V"), Undefined, <<>>)>>),
      MenuItem("command", "files", Some("nautilus"), Undefined, <<>>),
      MenuItem("command", "editor", Some("gedit"), Undefined, <<>>)>>)

\* where the sessions open
OpenPositions == {[x |-> 100, y |-> 100]}

\* the pointer positions of the session's events, relative to the local origin:
\* one inside the dead-zone, the others at the distance of the children
PointerOffsets ==
  {[x |-> 0, y |-> -(DeadZone \div 2)]}
    \cup {[x |-> ItemDistance * directionOf(a)[1],
           y |-> ItemDistance * directionOf(a)[2]] : a \in {0, 45, 90, 180, 270}}

IdleSession ==
  [status |-> "Idle", root |-> Undefined, path |-> <<>>, origins |-> <<>>,
   hover |-> 0, selected |-> <<>>, input |-> "none"]

\* Idle -> Open with a resolved menu and the initial pointer position
openSession(root, position) ==
  [IdleSession EXCEPT !.status = "Open", !.root = Some(root),
                      !.origins = <<position>>]

\* the item reached from item by the child indices of path
RECURSIVE itemAt(_, _)
itemAt(item, path) ==
  IF path = <<>> THEN item ELSE itemAt(item.children[Head(path)], Tail(path))

\* the children of the current submenu
currentChildren(s) == itemAt(OrElse(s.root, SessionMenu), s.path).children

\* the local origin of the relative angle and distance
localOrigin(s) == s.origins[Len(s.origins)]

\* the farthest children instead of the nearest
nearestChildren_farthest(angles, angle) ==
  LET away(i) == LET d == (angles[i] - angle) % FullCircle
                 IN  IF d > FullCircle - d THEN FullCircle - d ELSE d
  IN {i \in DOMAIN angles : \A j \in DOMAIN angles : away(i) >= away(j)}

\* the children angularly nearest to the angle: those whose resolved angle is
\* the fewest degrees away, going round either way
nearestChildren(angles, angle) ==
  LET away(i) == LET d == (angles[i] - angle) % FullCircle
                 IN  IF d > FullCircle - d THEN FullCircle - d ELSE d
  IN {i \in DOMAIN angles : \A j \in DOMAIN angles : away(i) <= away(j)}

\* the dead-zone is ignored
hoverTargets_noDeadZone(s, obj) ==
  nearestChildren(computeItemAngles(currentChildren(s)), degreesOf(obj.angle))

\* The hover targets after a motion notification: none within the dead-zone,
\* else the nearest child by the resolved angles of the current submenu (of
\* two equally near children either one: the specification leaves it open).
\* The tracker holds the distance as its square.
hoverTargets(s, obj) ==
  IF obj.distance < DeadZone * DeadZone THEN {0}
  ELSE nearestChildren(computeItemAngles(currentChildren(s)), degreesOf(obj.angle))

\* the screen position of child i of the current submenu
itemPosition(s, i) ==
  LET direction == directionOf(computeItemAngles(currentChildren(s))[i])
  IN  [x |-> localOrigin(s).x + ItemDistance * direction[1],
       y |-> localOrigin(s).y + ItemDistance * direction[2]]

\* going back also from a closed session
goBack_fromClosed(s) ==
  IF s.path = <<>> THEN [s EXCEPT !.status = "Closed", !.hover = 0]
  ELSE [s EXCEPT !.path = SubSeq(@, 1, Len(@) - 1),
                 !.origins = SubSeq(@, 1, Len(@) - 1),
                 !.hover = 0]

\* go back: pop one level, or close the session at the root
goBack(s) ==
  IF s.status # "Open" THEN s
  ELSE IF s.path = <<>> THEN [s EXCEPT !.status = "Closed", !.hover = 0]
  ELSE [s EXCEPT !.path = SubSeq(@, 1, Len(@) - 1),
                 !.origins = SubSeq(@, 1, Len(@) - 1),
                 !.hover = 0]

\* A click or gesture-release on the hovered item: a submenu is opened, with
\* its screen position as the new local origin; a leaf is finalized, its data
\* emitted and the session closed; with nothing hovered the parent is
\* selected, which goes back.
selectHovered(s) ==
  IF s.hover = 0 THEN goBack(s)
  ELSE LET item == currentChildren(s)[s.hover]
       IN  IF item.children # <<>>
           THEN [s EXCEPT !.path = Append(@, s.hover),
                          !.origins = Append(@, itemPosition(s, s.hover)),
                          !.hover = 0]
           ELSE [s EXCEPT !.status = "Closed",
                          !.selected = Append(@, [type |-> item.type,
                                                  data |-> item.data])]

\* the tracker reports Dragging -> Released, or a click completes
isRelease(before, after) ==
  before.state \in {eClicked, eDragging} /\ after.state = eReleased

\* The reaction of the open session to a call c of its tracker: the hover
\* targets are recomputed at a motion notification, and a release selects the
\* hovered item.  The result is the set of possible next sessions.
reactions(s, before, c) ==
  LET hovers == IF c.out = <<>> THEN {s.hover} ELSE hoverTargets(s, c.obj)
  IN  {IF isRelease(before, c.obj) THEN selectHovered([s EXCEPT !.hover = h])
       ELSE [s EXCEPT !.hover = h] : h \in hovers}

(***************************************************************************)
(* The specifications of the components.                                   *)
(***************************************************************************)
\* a session opens with a freshly reset tracker, armed to ignore the first
\* motion events
Opens(root, position) ==
  /\ session' = [openSession(root, position) EXCEPT !.input = "show-menu"]
  /\ Return(ignoreNextMotionEvents([obj |-> NewInputTracker, out |-> <<>>]))

\* The menu selector: one show-menu request against a configured menu list.
InitSelector ==
  /\ TrackerInit
  /\ chooser \in [menus : MenuLists(MaxMenus), request : Requests,
                  context : Contexts, result : {0}, done : {FALSE}]
  /\ session = IdleSession
  /\ layout = Unused /\ heap = Unused

\* the request is resolved; a menu found opens a session at the pointer, no
\* menu found is reported and nothing opens
ShowMenu ==
  /\ ~chooser.done
  /\ LET result == chooseMenu(chooser.menus, chooser.request, chooser.context)
     IN  /\ chooser' = [chooser EXCEPT !.result = result, !.done = TRUE]
         /\ IF result = 0
            THEN UNCHANGED <<session, self, emitted>>
            ELSE Opens(chooser.menus[result].root, chooser.context.pointer)
  /\ UNCHANGED <<last, sinceArm, layout, heap>>

NextSelector == ShowMenu

SpecSelector == InitSelector /\ [][NextSelector]_vars

\* The layout resolver: one run on a list of siblings.
InitLayout ==
  /\ TrackerInit
  /\ layout \in [items : {l \in SiblingLists(MaxItems) :
                            l # <<>> /\ isValidLayoutInput(l)},
                 angles : {<<>>}]
  /\ chooser = Unused /\ session = Unused /\ heap = Unused

Resolve ==
  /\ layout.angles = <<>>
  /\ layout' = [layout EXCEPT !.angles = computeItemAngles(layout.items)]
  /\ UNCHANGED <<tracker, chooser, session, heap>>

NextLayout == Resolve

SpecLayout == InitLayout /\ [][NextLayout]_vars

\* The selection state machine with its tracker.
InitSession ==
  /\ TrackerInit
  /\ session = IdleSession
  /\ chooser = Unused /\ layout = Unused /\ heap = Unused

\* the position of the events: an offset from the local origin of the session
sessionOrigin(s) == IF s.origins = <<>> THEN Origin ELSE localOrigin(s)

SessionEvents ==
  {[mouse |-> TRUE, clientX |-> sessionOrigin(session).x + o.x,
    clientY |-> sessionOrigin(session).y + o.y, buttons |-> b,
    keys |-> NoModifier] : o \in PointerOffsets, b \in {0, 1}}

\* An input is delivered: the open session hands it to its tracker and reacts;
\* without an open session nothing happens.
Delivered(input, c) ==
  /\ IF session.status = "Open"
     THEN /\ Return(c)
          /\ session' \in {[r EXCEPT !.input = input] :
                             r \in reactions(session, self, c)}
     ELSE /\ UNCHANGED <<self, emitted>>
          /\ session' = [session EXCEPT !.input = input]
  /\ UNCHANGED <<last, sinceArm, chooser, layout, heap>>

OpenMenu ==
  /\ session.status = "Idle"
  /\ \E position \in OpenPositions : Opens(SessionMenu, position)
  /\ UNCHANGED <<last, sinceArm, chooser, layout, heap>>

SessionMotion ==
  \E event \in SessionEvents :
    Delivered("motion", onMotionEvent(Entry, event, sessionOrigin(session)))

SessionPointerDown ==
  \E event \in SessionEvents :
    Delivered("pointer-down", onPointerDownEvent(Entry, event, sessionOrigin(session)))

SessionPointerUp == Delivered("pointer-up", onPointerUpEvent(Entry))

SessionKeyDown == Delivered("key-down", onKeyDownEvent(Entry))

SessionKeyUp ==
  \E event \in {NoModifier, [NoModifier EXCEPT !.ctrlKey = TRUE]} :
    Delivered("key-up", onKeyUpEvent(Entry, event))

\* the external cancel signal
GoBack ==
  /\ session' = [goBack(session) EXCEPT !.input = "go-back"]
  /\ UNCHANGED <<tracker, chooser, layout, heap>>

\* the closed session is torn down; the next one starts Idle
NewSession ==
  /\ session.status = "Closed"
  /\ session' = IdleSession
  /\ UNCHANGED <<tracker, chooser, layout, heap>>

NextSession ==
  \/ OpenMenu
  \/ SessionMotion
  \/ SessionPointerDown
  \/ SessionPointerUp
  \/ SessionKeyDown
  \/ SessionKeyUp
  \/ GoBack
  \/ NewSession

SpecSession == InitSession /\ [][NextSession]_vars

(***************************************************************************)
(* deepCopyMenuItem on a heap of objects.  The memory is a sequence of     *)
(* objects and a reference is an index into it: an item object holds its   *)
(* primitive fields by value and its data and its children by reference    *)
(* (to a data object, to an array object of item references).              *)
(*   heap.mem       the memory                                             *)
(*   heap.original  the item given to deepCopyMenuItem                     *)
(*   heap.copy      the item it returned, 0 before the call                *)
(*   heap.before    history: the original tree at the time of the call     *)
(*   heap.op        history: the operation that ran last                   *)
(***************************************************************************)

\* the largest number of children of an item
MaxChildren == 2

\* The copy of the items elems[i], elems[i+1], ... in this order
\* (Array.prototype.map) and the copy of one item: a new object with the type,
\* data, name, icon, iconTheme and angle of the item as they are (a data object
\* by reference) and a new array of the copies of its children, if it has
\* children.  Both return the memory and the new reference(s).
RECURSIVE deepCopyMenuItem(_, _)
RECURSIVE mapDeepCopyMenuItem(_, _, _)
mapDeepCopyMenuItem(mem, elems, i) ==
  IF i > Len(elems) THEN [mem |-> mem, refs |-> <<>>]
  ELSE LET first == deepCopyMenuItem(mem, elems[i])
           rest == mapDeepCopyMenuItem(first.mem, elems, i + 1)
       IN  [mem |-> rest.mem, refs |-> <<first.ref>> \o rest.refs]

deepCopyMenuItem(mem, item) ==
  LET o == mem[item]
      mapped == mapDeepCopyMenuItem(mem, mem[OrElse(o.children, 0)].elems, 1)
      m1 == IF o.children = Undefined THEN mem
            ELSE Append(mapped.mem, [kind |-> "array", elems |-> mapped.refs])
      m2 == Append(m1, [kind |-> "item",
                        type |-> o.type,
                        data |-> o.data,
                        name |-> o.name,
                        icon |-> o.icon,
                        iconTheme |-> o.iconTheme,
                        children |-> IF o.children = Undefined THEN Undefined
                                     ELSE Some(Len(m1)),
                        angle |-> o.angle])
  IN  [mem |-> m2, ref |-> Len(m2)]

\* the tree below an item reference as a value: data and children in place of
\* their references
RECURSIVE valueOf(_, _)
valueOf(mem, item) ==
  LET o == mem[item]
  IN  [type |-> o.type,
       data |-> {[command |-> mem[d].command] : d \in o.data},
       name |-> o.name,
       icon |-> o.icon,
       iconTheme |-> o.iconTheme,
       children |-> {[i \in DOMAIN mem[a].elems |-> valueOf(mem, mem[a].elems[i])] :
                       a \in o.children},
       angle |-> o.angle]

\* the item objects of the tree below an item reference
RECURSIVE itemsBelow(_, _)
itemsBelow(mem, item) ==
  {item} \cup UNION {UNION {itemsBelow(mem, mem[a].elems[i]) : i \in DOMAIN mem[a].elems} :
                       a \in mem[item].children}

\* the memory with a tree stored in it, and the reference of its root
RECURSIVE storeItem(_, _)
RECURSIVE storeItems(_, _, _)
storeItems(mem, values, i) ==
  IF i > Len(values) THEN [mem |-> mem, refs |-> <<>>]
  ELSE LET first == storeItem(mem, values[i])
           rest == storeItems(first.mem, values, i + 1)
       IN  [mem |-> rest.mem, refs |-> <<first.ref>> \o rest.refs]

storeItem(mem, value) ==
  LET m1 == IF value.data = Undefined THEN mem
            ELSE Append(mem, [kind |-> "data",
                              command |-> OrElse(value.data, [command |-> ""]).command])
      stored == storeItems(m1, OrElse(value.children, <<>>), 1)
      m2 == IF value.children = Undefined THEN m1
            ELSE Append(stored.mem, [kind |-> "array", elems |-> stored.refs])
      m3 == Append(m2, [kind |-> "item",
                        type |-> value.type,
                        data |-> IF value.data = Undefined THEN Undefined
                                 ELSE Some(Len(m1)),
                        name |-> value.name,
                        icon |-> value.icon,
                        iconTheme |-> value.iconTheme,
                        children |-> IF value.children = Undefined THEN Undefined
                                     ELSE Some(Len(m2)),
                        angle |-> value.angle])
  IN  [mem |-> m3, ref |-> Len(m3)]

\* the items given to deepCopyMenuItem: leaves with and without data and fixed
\* angle, submenus of up to MaxChildren leaves, and a submenu in a submenu
LeafItems ==
  {[type |-> "command", data |-> d, name |-> "run", icon |-> "terminal",
    iconTheme |-> "material", children |-> Undefined, angle |-> a] :
     d \in {Undefined, Some([command |-> "ls"])}, a \in {Undefined, Some(90)}}

Submenu(children) ==
  [type |-> "submenu", data |-> Undefined, name |-> "more", icon |-> "apps",
   iconTheme |-> "material", children |-> Some(children), angle |-> Undefined]

RECURSIVE LeafLists(_)
LeafLists(n) ==
  IF n = 0 THEN {<<>>}
  ELSE LeafLists(n - 1)
         \cup {Append(l, m) : l \in {k \in LeafLists(n - 1) : Len(k) = n - 1},
                              m \in LeafItems}

CopiedItems ==
  LeafItems
    \cup {Submenu(l) : l \in LeafLists(MaxChildren)}
    \cup {Submenu(<<Submenu(<<leaf>>)>>) : leaf \in LeafItems}

InitCopy ==
  /\ TrackerInit
  /\ \E value \in CopiedItems :
       LET stored == storeItem(<<>>, value)
       IN  heap = [mem |-> stored.mem, original |-> stored.ref, copy |-> 0,
                   before |-> value, op |-> "new"]
  /\ chooser = Unused /\ layout = Unused /\ session = Unused

\* copy = deepCopyMenuItem(original)
DeepCopy ==
  /\ heap.copy = 0
  /\ LET copied == deepCopyMenuItem(heap.mem, heap.original)
     IN  heap' = [heap EXCEPT !.mem = copied.mem, !.copy = copied.ref,
                              !.op = "deepCopyMenuItem"]
  /\ UNCHANGED <<tracker, chooser, layout, session>>

\* The later changes to the copy, each to an item at any depth of it.
\* item.angle = 45 (a resolved angle is assigned)
AssignAngle ==
  /\ heap.copy # 0
  /\ \E item \in itemsBelow(heap.mem, heap.copy) :
       heap' = [heap EXCEPT !.mem[item].angle = Some(45), !.op = "angle ="]
  /\ UNCHANGED <<tracker, chooser, layout, session>>

\* item.name = 'renamed'
AssignName ==
  /\ heap.copy # 0
  /\ \E item \in itemsBelow(heap.mem, heap.copy) :
       heap' = [heap EXCEPT !.mem[item].name = "renamed", !.op = "name ="]
  /\ UNCHANGED <<tracker, chooser, layout, session>>

\* delete item.data
DeleteData ==
  /\ heap.copy # 0
  /\ \E item \in itemsBelow(heap.mem, heap.copy) :
       /\ heap.mem[item].data # Undefined
       /\ heap' = [heap EXCEPT !.mem[item].data = Undefined, !.op = "delete data"]
  /\ UNCHANGED <<tracker, chooser, layout, session>>

\* item.data.command = 'rm'
EditData ==
  /\ heap.copy # 0
  /\ \E item \in itemsBelow(heap.mem, heap.copy) :
       \E d \in heap.mem[item].data :
         heap' = [heap EXCEPT !.mem[d].command = "rm", !.op = "data.command ="]
  /\ UNCHANGED <<tracker, chooser, layout, session>>

\* item.children.pop()
PopChild ==
  /\ heap.copy # 0
  /\ \E item \in itemsBelow(heap.mem, heap.copy) :
       \E a \in heap.mem[item].children :
         /\ heap.mem[a].elems # <<>>
         /\ heap' = [heap EXCEPT !.mem[a].elems = SubSeq(@, 1, Len(@) - 1),
                                 !.op = "children.pop"]
  /\ UNCHANGED <<tracker, chooser, layout, session>>

\* item.children.reverse()
ReverseChildren ==
  /\ heap.copy # 0
  /\ \E item \in itemsBelow(heap.mem, heap.copy) :
       \E a \in heap.mem[item].children :
         /\ Len(heap.mem[a].elems) > 1
         /\ heap' = [heap EXCEPT !.mem[a].elems =
                                    [i \in DOMAIN @ |-> @[Len(@) + 1 - i]],
                                 !.op = "children.reverse"]
  /\ UNCHANGED <<tracker, chooser, layout, session>>

NextCopy ==
  \/ DeepCopy
  \/ AssignAngle
  \/ AssignName
  \/ DeleteData
  \/ EditData
  \/ PopChild
  \/ ReverseChildren

SpecCopy == InitCopy /\ [][NextCopy]_vars

(***************************************************************************)
(* Vocabulary of the selector's properties.                                *)
(***************************************************************************)
\* the condition fields
ConditionFields == {"appName", "windowName", "screenArea"}

\* the configured string occurs in the context string, the case of the
\* letters aside
Contains(str, pattern) ==
  \E start \in 0 .. Len(str) - Len(pattern) :
    \A k \in 1 .. Len(pattern) :
      toLowerCase(<<str[start + k]>>) = toLowerCase(<<pattern[k]>>)

\* the pointer is within the rectangle, an absent side being no limit
Within(pointer, area) ==
  /\ area.xMin = Undefined \/ \E v \in area.xMin : v <= pointer.x
  /\ area.xMax = Undefined \/ \E v \in area.xMax : pointer.x <= v
  /\ area.yMin = Undefined \/ \E v \in area.yMin : v <= pointer.y
  /\ area.yMax = Undefined \/ \E v \in area.yMax : pointer.y <= v

\* the condition field f of the menu is satisfied by the context of the request
Satisfied(menu, f) ==
  CASE f = "appName" ->
         \E p \in menu.conditions.appName : Contains(chooser.context.appName, p)
    [] f = "windowName" ->
         \E p \in menu.conditions.windowName : Contains(chooser.context.windowName, p)
    [] f = "screenArea" ->
         \E a \in menu.conditions.screenArea : Within(chooser.context.pointer, a)

\* the present condition fields of the menu
Present(menu) == {f \in ConditionFields : menu.conditions[f] # Undefined}

\* the request asks for the menu: by its name, or by its shortcut or shortcut ID
Requested(menu) ==
  \/ chooser.request.name # "" /\ chooser.request.name = menu.root.name
  \/ /\ chooser.request.name = "" /\ chooser.request.trigger # ""
     /\ chooser.request.trigger \in {menu.shortcut, menu.shortcutID}

\* the menus that survive: requested, and every present field satisfied
Survivors ==
  {i \in DOMAIN chooser.menus :
     /\ Requested(chooser.menus[i])
     /\ \A f \in Present(chooser.menus[i]) : Satisfied(chooser.menus[i], f)}

\* the number of satisfied condition fields of menu i
SatisfiedCount(i) ==
  Cardinality({f \in Present(chooser.menus[i]) : Satisfied(chooser.menus[i], f)})

(***************************************************************************)
(* C12  The most specific surviving menu is selected, the earliest one of  *)
(* several.                                                                *)
(***************************************************************************)
\* C12: when some menu survives (its trigger matches the request and all its
\* present condition fields are satisfied), the selected menu is a survivor,
\* no survivor has more satisfied condition fields, and no survivor with as
\* many is declared earlier.
C12_MostSpecificEarliest ==
  (chooser.done /\ Survivors # {})
    => /\ chooser.result \in Survivors
       /\ \A j \in Survivors :
            \/ SatisfiedCount(j) < SatisfiedCount(chooser.result)
            \/ /\ SatisfiedCount(j) = SatisfiedCount(chooser.result)
               /\ chooser.result <= j

\* a menu with two satisfied fields is selected over an earlier one with one
C12_Witness ==
  /\ chooser.done
  /\ Survivors = {1, 2}
  /\ SatisfiedCount(1) = 1
  /\ SatisfiedCount(2) = 2
  /\ chooser.result = 2

\* of two menus with one satisfied field each the earlier one is selected
C12_WitnessTie ==
  /\ chooser.done
  /\ Survivors = {1, 2}
  /\ SatisfiedCount(1) = 1
  /\ SatisfiedCount(2) = 1
  /\ chooser.menus[1] # chooser.menus[2]
  /\ chooser.result = 1

(***************************************************************************)
(* C13  The conditions are conjunctive; without a survivor nothing opens.  *)
(***************************************************************************)
\* C13: a menu with a present condition field that the context does not
\* satisfy is never selected, however many of its other fields are satisfied;
\* and when no menu survives, the request yields no menu and the session stays
\* Idle.
C13_Conjunctive ==
  chooser.done
    => /\ \A i \in DOMAIN chooser.menus :
            (\E f \in Present(chooser.menus[i]) : ~Satisfied(chooser.menus[i], f))
              => chooser.result # i
       /\ Survivors = {}
            => (chooser.result = 0 /\ session.status = "Idle")
       /\ chooser.result # 0 => session.status = "Open"

\* the only requested menu has two satisfied fields and one unsatisfied field:
\* no menu, no session
C13_Witness ==
  /\ chooser.done
  /\ \E i \in DOMAIN chooser.menus :
       /\ Requested(chooser.menus[i])
       /\ Present(chooser.menus[i]) = ConditionFields
       /\ SatisfiedCount(i) = 2
  /\ Survivors = {}
  /\ chooser.result = 0
  /\ session.status = "Idle"

(***************************************************************************)
(* Vocabulary of the layout's properties.                                  *)
(***************************************************************************)
\* the clockwise way from angle a to angle b, in degrees
Clockwise(a, b) == (b - a) % 360

\* the sibling after sibling i, the first one after the last
Successor(i) == (i % Len(layout.items)) + 1

\* the resolver has run
Resolved == layout.angles # <<>>

\* the degrees gone clockwise from the first sibling to the one after sibling
\* i, from each sibling to the next of the list
RECURSIVE WayRound(_)
WayRound(i) ==
  IF i = 0 THEN 0
  ELSE WayRound(i - 1) + Clockwise(layout.angles[i], layout.angles[Successor(i)])

(***************************************************************************)
(* C14  Siblings without fixed angles are spaced evenly from the top.      *)
(***************************************************************************)
\* C14: for n >= 1 siblings none of which has a fixed angle, the resolved angle
\* of the sibling at input index i (counted from 0) is i * 360 / n.
C14_EvenSpacing ==
  (Resolved /\ \A i \in DOMAIN layout.items : layout.items[i].angle = Undefined)
    => /\ Len(layout.angles) = Len(layout.items)
       /\ \A i \in DOMAIN layout.items :
            layout.angles[i] * Len(layout.items) = (i - 1) * 360

\* three free siblings: 0, 120, 240
C14_Witness ==
  /\ Len(layout.items) = 3
  /\ \A i \in DOMAIN layout.items : layout.items[i].angle = Undefined
  /\ layout.angles = <<0, 120, 240>>

(***************************************************************************)
(* C15  Fixed siblings keep their angle, free ones go in between.          *)
(***************************************************************************)
\* C15: of siblings some of which have a fixed angle, every fixed sibling has
\* exactly its fixed angle as resolved angle; every free sibling has a resolved
\* angle in [0, 360) different from every fixed angle; and going clockwise from
\* each sibling to the next one of the list, from the last to the first, makes
\* one round of the circle.
C15_FixedAndOrder ==
  (Resolved /\ \E i \in DOMAIN layout.items : layout.items[i].angle # Undefined)
    => /\ Len(layout.angles) = Len(layout.items)
       /\ \A i \in DOMAIN layout.items :
            IF layout.items[i].angle # Undefined
            THEN layout.items[i].angle = {layout.angles[i]}
            ELSE /\ layout.angles[i] \in 0 .. 359
                 /\ \A j \in DOMAIN layout.items :
                      layout.items[j].angle # {layout.angles[i]}
       /\ Len(layout.items) > 1
            => /\ \A i, j \in DOMAIN layout.items :
                    i # j => layout.angles[i] # layout.angles[j]
               /\ WayRound(Len(layout.items)) = 360

\* a free sibling before the only fixed one and two after it: the run starts
\* after the fixed sibling and wraps round to the first sibling
C15_Witness ==
  /\ Len(layout.items) = 4
  /\ layout.items[1].angle = Undefined
  /\ layout.items[2].angle = {120}
  /\ layout.items[3].angle = Undefined
  /\ layout.items[4].angle = Undefined
  /\ layout.angles = <<30, 120, 210, 300>>

\* two fixed siblings given in wrapping order, with free siblings in both gaps
C15_WitnessWrap ==
  /\ Len(layout.items) = 4
  /\ layout.items[1].angle = {240}
  /\ layout.items[2].angle = Undefined
  /\ layout.items[3].angle = {60}
  /\ layout.items[4].angle = Undefined
  /\ layout.angles = <<240, 330, 60, 150>>

(***************************************************************************)
(* C16  Closed is terminal.                                                *)
(***************************************************************************)
\* the input events of the state machine
InputEvents ==
  {"motion", "pointer-down", "pointer-up", "key-down", "key-up", "go-back"}

\* C16: an input event (motion, pointer-down, pointer-up, key-down, key-up,
\* go-back) that arrives when the machine is Closed leaves it Closed, with its
\* path, hover target and tracker as they were and no selection emitted; and a
\* session becomes Open only from Idle, by a show-menu request, with a freshly
\* reset tracker.
C16_ClosedIsTerminal ==
  [][/\ (session.status = "Closed" /\ session'.input \in InputEvents)
          => /\ session' = [session EXCEPT !.input = session'.input]
             /\ self' = self /\ emitted' = emitted
     /\ (session.status # "Open" /\ session'.status = "Open")
          => /\ session.status = "Idle"
             /\ session'.input = "show-menu"
             /\ session'.selected = <<>>
             /\ self' = [NewInputTracker EXCEPT !.ignoreMotionEvents = 2]]_vars

\* a session closed inside a submenu by the selection of a leaf, and a go-back
\* that arrived afterwards: the path is still there
C16_Witness ==
  /\ session.status = "Closed"
  /\ session.input = "go-back"
  /\ session.path # <<>>
  /\ Len(session.selected) = 1

(***************************************************************************)
(* C17  The hover target is the angularly nearest child.                   *)
(***************************************************************************)
\* the angle of the pointer at p seen from the item at origin, in degrees
\* (the pointer positions of the model lie on the eight compass directions)
PointerDegrees(p, origin) ==
  LET dx == p.x - origin.x
      dy == p.y - origin.y
  IN  CASE dx = 0 /\ dy < 0 -> 0
        [] dx > 0 /\ dy = -dx -> 45
        [] dx > 0 /\ dy = 0 -> 90
        [] dx > 0 /\ dy = dx -> 135
        [] dx = 0 /\ dy > 0 -> 180
        [] dx < 0 /\ dy = -dx -> 225
        [] dx < 0 /\ dy = 0 -> 270
        [] dx < 0 /\ dy = dx -> 315

\* the cyclic distance of two angles
CyclicDistance(a, b) ==
  LET d == IF a > b THEN a - b ELSE b - a
  IN  IF d > 180 THEN 360 - d ELSE d

\* h is what a pointer at p hovers in the current submenu of session s: nothing
\* within the dead-zone, else a child none of whose siblings is angularly
\* nearer
Hovers(s, p, h) ==
  LET o == s.origins[Len(s.origins)]
      angles == computeItemAngles(currentChildren(s))
  IN  IF (p.x - o.x) * (p.x - o.x) + (p.y - o.y) * (p.y - o.y) < DeadZone * DeadZone
      THEN h = 0
      ELSE /\ h \in DOMAIN angles
           /\ \A j \in DOMAIN angles :
                CyclicDistance(angles[h], PointerDegrees(p, o))
                  <= CyclicDistance(angles[j], PointerDegrees(p, o))

\* C17: after a motion event that an open session's tracker accepts, the hover
\* target is the child of the current submenu whose resolved angle is
\* cyclically nearest to the angle of the pointer seen from the active item,
\* and no child when the pointer is within the dead-zone.  When the tracker
\* reports with the same event that the pointer is released (a motion event
\* without a button pressed that ends a drag), it is that hover target that is
\* selected.
C17_NearestChild ==
  [][(/\ session.status = "Open"
      /\ session'.input = "motion"
      /\ self.ignoreMotionEvents = 0)
       => IF self.state # eReleased /\ self'.state = eReleased
          THEN \E h \in 0 .. Len(currentChildren(session)) :
                 /\ Hovers(session, self'.absolutePosition, h)
                 /\ session' = [selectHovered([session EXCEPT !.hover = h])
                                  EXCEPT !.input = "motion"]
          ELSE /\ Hovers(session, self'.absolutePosition, session'.hover)
               /\ session' = [session EXCEPT !.hover = session'.hover,
                                             !.input = "motion"]]_vars

\* the root at (100,100) with its four free children, the pointer moved to
\* (100,50): the child at 0 degrees is hovered
C17_Witness ==
  /\ session.status = "Open"
  /\ session.input = "motion"
  /\ session.path = <<>>
  /\ session.origins = <<[x |-> 100, y |-> 100]>>
  /\ self.absolutePosition = [x |-> 100, y |-> 50]
  /\ self.distance = 50 * 50
  /\ computeItemAngles(currentChildren(session)) = <<0, 90, 180, 270>>
  /\ session.hover = 1

\* in the submenu, whose first child is fixed at 180 degrees, the pointer moved
\* up hovers the second child
C17_WitnessSubmenu ==
  /\ session.status = "Open"
  /\ session.input = "motion"
  /\ session.path = <<2>>
  /\ session.origins = <<[x |-> 100, y |-> 100], [x |-> 150, y |-> 100]>>
  /\ self.absolutePosition = [x |-> 150, y |-> 50]
  /\ computeItemAngles(currentChildren(session)) = <<180, 0>>
  /\ session.hover = 2

(***************************************************************************)
(* C18  deepCopyMenuItem returns a deep copy.                              *)
(***************************************************************************)
\* C18 as stated: the copy returned by deepCopyMenuItem is equal to the
\* original in type, data, name, icon, iconTheme, angle (an absent angle stays
\* absent) and, child by child, in its children; and whatever is changed later
\* in the copy, at any depth, the original tree stays as it was.
C18_Claim ==
  heap.copy # 0
    => /\ heap.op = "deepCopyMenuItem"
            => valueOf(heap.mem, heap.copy) = heap.before
       /\ valueOf(heap.mem, heap.original) = heap.before

====
